---- MODULE Spec2Model ----
(***************************************************************************)
(* Model of honeybee_3dm/grid.py: import_grids (sensor grids from the      *)
(* objects of a Rhino layer) and DataWriter.write_csv (summary export).    *)
(*                                                                         *)
(* Text is modelled as a sequence of one-character strings so that         *)
(* sanitising and CSV quoting act on characters.  Floats 1.0, 1.0, 0.0 are *)
(* the integers 1, 1, 0.                                                   *)
(***************************************************************************)
EXTENDS Integers, Sequences, FiniteSets, TLC

VARIABLES
    \* ---- import_grids: inputs shared by the calls of one process
    rhino3dm_file,   \* objects of the file, in file order
    tolerance,
    layer,           \* the layer object handed to import_grids
    \* ---- import_grids: the running call
    call,            \* number of calls entered so far
    pc,              \* "idle" | "loop"
    child_layer,     \* the child_layer flag of the calls
    args,            \* call -> the grid_controls argument it was entered with
    grid_objs, grid_controls, idx,
    hb_grids, grid_pos, grid_dir, data,
    result,          \* call -> outcome (return value or exception)
    lookups,         \* call -> layer lookups performed, in order
    converted,       \* call -> ids handed to to_face3d, in order
    seeded,          \* call -> [args, sens] of every SensorGrid.from_face3d
    \* ---- DataWriter.write_csv
    fs,              \* path -> [kind, content]
    opened,          \* number of open() calls made
    writes,          \* number of write_csv calls made
    last_call,       \* the latest write_csv call: its fields and outcome
    exported         \* path -> rows of the latest successful export to it

build_vars == <<rhino3dm_file, tolerance, layer, child_layer, call, pc, args, grid_objs,
                grid_controls, idx, hb_grids, grid_pos, grid_dir, data,
                result, lookups, converted, seeded>>
export_vars == <<fs, opened, writes, last_call, exported>>
vars == <<build_vars, export_vars>>

----------------------------------------------------------------------------
(* Bounds                                                                  *)
MaxObjs == 2        \* objects in the file
MaxDim == 2         \* grid sizes range over 1..MaxDim
MaxOffset == 1      \* offsets range over 0..MaxOffset
MaxRows == 2        \* rows handed to one DataWriter
MaxWrites == 2      \* write_csv calls in one run

Calls == {1, 2}     \* import_grids calls made one after the other

----------------------------------------------------------------------------
(* Sequences helpers                                                       *)
RECURSIVE Flatten(_)
Flatten(ss) == IF ss = <<>> THEN <<>> ELSE Head(ss) \o Flatten(Tail(ss))

RECURSIVE SumSeq(_)
SumSeq(s) == IF s = <<>> THEN 0 ELSE Head(s) + SumSeq(Tail(s))

Range(s) == {s[i] : i \in 1..Len(s)}

----------------------------------------------------------------------------
(* The Rhino file: layers and objects (rhino3dm object model)              *)

\* Layer table of the file; Parent is the index of the parent layer, -1 at
\* the top level.
LayerTable ==
    << [Index |-> 0, Name |-> "grid",   Parent |-> -1],
       [Index |-> 1, Name |-> "zone",   Parent |-> 0],
       [Index |-> 2, Name |-> "desk",   Parent |-> 1] >>

Layers == Range(LayerTable)

\* A planar face: origin x0 along the first axis, extents w and h, normal n.
Face(x0, w, h, n) == [x0 |-> x0, w |-> w, h |-> h, n |-> n]

Obj(id, name, li, kind, minEdge, faces) ==
    [Attributes |-> [Id |-> id, Name |-> name, LayerIndex |-> li],
     Geometry   |-> [kind |-> kind, minEdge |-> minEdge, faces |-> faces]]

\* Objects a file may hold.  Names: plain, empty, and with characters that
\* are not identifier-safe.  Geometry: breps, extrusions, a mesh, and a brep
\* with an edge shorter than the coarser tolerance.
Catalog ==
    { Obj("id1", <<"a">>,            0, "Brep",      2, <<Face(0, 2, 2, "z")>>),
      Obj("id2", <<>>,               0, "Extrusion", 2, <<Face(10, 1, 2, "z"), Face(20, 2, 1, "x")>>),
      Obj("id3", <<"a", " ", "b", "!">>, 1, "Brep",  2, <<Face(30, 2, 1, "y")>>),
      Obj("id4", <<"m">>,            0, "Mesh",      2, <<Face(40, 1, 1, "z")>>),
      Obj("id5", <<"t">>,            0, "Brep",      1, <<Face(50, 1, 1, "z")>>),
      Obj("id6", <<>>,               2, "Brep",      2, <<Face(60, 1, 1, "x")>>) }

Injective(s) == \A i, j \in 1..Len(s) : s[i] = s[j] => i = j

Files == UNION { {s \in [1..n -> Catalog] : Injective(s)} : n \in 0..MaxObjs }

Tolerances == 1..2

\* grid_controls as passed by the caller: None, or a triple
\* (grid-size-x, grid-size-y, grid-offset).
None == [some |-> FALSE, val |-> <<>>]
Some(t) == [some |-> TRUE, val |-> t]
GridControls ==
    {None} \cup {Some(<<x, y, z>>) : x \in 1..MaxDim, y \in 1..MaxDim, z \in 0..MaxOffset}

\* Python truth value of the grid_controls argument.
Truthy(gc) == gc.some /\ Len(gc.val) > 0

----------------------------------------------------------------------------
(* Collaborators of import_grids                                           *)

\* layer.objects_on_layer: the objects whose layer is the given layer.
objects_on_layer(file, l) ==
    SelectSeq(file, LAMBDA o : o.Attributes.LayerIndex = l.Index)

\* Layers nested under the layer of the given index, at any depth.
RECURSIVE Descendants(_)
Descendants(i) ==
    LET kids == {l.Index : l \in {k \in Layers : k.Parent = i}}
    IN  kids \cup UNION {Descendants(k) : k \in kids}

\* layer.objects_on_parent_child: the objects on the named layer and on the
\* layers nested under it.
objects_on_parent_child(file, name) ==
    LET roots == {l.Index : l \in {k \in Layers : k.Name = name}}
        all   == roots \cup UNION {Descendants(r) : r \in roots}
    IN  SelectSeq(file, LAMBDA o : o.Attributes.LayerIndex \in all)

\* togeometry.to_face3d raises AssertionError on geometry that is degenerate
\* relative to the tolerance.
ToFace3dFails(obj, tol) == obj.Geometry.minEdge < tol

to_face3d(obj, tol) == obj.Geometry.faces

\* honeybee.typing.clean_string: spaces become underscores, characters
\* outside [.A-Za-z0-9_-] are dropped.
Unsafe == {"!", ",", "\""}

RECURSIVE clean_string(_)
clean_string(s) ==
    IF s = <<>> THEN <<>>
    ELSE LET c == Head(s)
         IN  IF c = " " THEN <<"_">> \o clean_string(Tail(s))
             ELSE IF c \in Unsafe THEN clean_string(Tail(s))
             ELSE <<c>> \o clean_string(Tail(s))

\* honeybee.typing.clean_and_id_string: the cleaned text, "_", and the first
\* eight characters of a random uuid4 (here one token u).
UuidPrefixes == {"3f2a9c1e", "b07d44a2"}

clean_and_id_string(s, u) == clean_string(s) \o <<"_", u>>

\* SensorGrid.from_face3d(identifier, faces, x_dim, y_dim, offset): sensors
\* on a regular x_dim by y_dim grid over each face, moved by offset along the
\* face normal; faces in order, then cells in order.
SeedFace(f, x_dim, y_dim, offset) ==
    LET nx == f.w \div x_dim
        ny == f.h \div y_dim
    IN  [k \in 1..(nx * ny) |->
            [pos |-> <<f.x0 + ((k - 1) \div ny) * x_dim, ((k - 1) % ny) * y_dim, offset>>,
             dir |-> f.n]]

RECURSIVE SeedFaces(_, _, _, _)
SeedFaces(faces, x_dim, y_dim, offset) ==
    IF faces = <<>> THEN <<>>
    ELSE SeedFace(Head(faces), x_dim, y_dim, offset)
            \o SeedFaces(Tail(faces), x_dim, y_dim, offset)

from_face3d(a) == SeedFaces(a[2], a[3], a[4], a[5])

\* SensorGrid.from_position_and_direction(identifier, positions, directions)
from_position_and_direction(identifier, positions, directions) ==
    [identifier |-> identifier, positions |-> positions, directions |-> directions]

----------------------------------------------------------------------------
(* import_grids                                                            *)

NoException == [type |-> "", text |-> "", id |-> ""]
Pending == [kind |-> "pending", grids |-> <<>>, data |-> <<>>, exc |-> NoException]
Returned(grids, rows) ==
    [kind |-> "return", grids |-> grids, data |-> rows, exc |-> NoException]
Raised(type, text, id) ==
    [kind |-> "raise", grids |-> <<>>, data |-> <<>>,
     exc |-> [type |-> type, text |-> text, id |-> id]]

\* Variant: the message does not name the object.
ConversionError_noid(obj) ==
    Raised("AssertionError", "Please check object with ID", "")

\* Lines 89-95: the AssertionError raised in place of the one of to_face3d.
ConversionError(obj) ==
    Raised("AssertionError", "Please check object with ID", obj.Attributes.Id)

\* Variant: child_layer is not consulted.
LookupUsed_direct(cl) == "objects_on_layer"

\* Lines 63-69: the lookup chosen by child_layer, and the objects it gives.
LookupUsed(cl) ==
    IF ~cl THEN "objects_on_layer" ELSE "objects_on_parent_child"

SelectObjects(file, l, cl) ==
    IF LookupUsed(cl) = "objects_on_layer"
    THEN objects_on_layer(file, l)
    ELSE objects_on_parent_child(file, l.Name)

\* Variant: the default is (1.0, 0.0, 0.0).
EffectiveControls_offset0(gc) == IF ~Truthy(gc) THEN <<1, 0, 0>> ELSE gc.val

\* Lines 71-73: default grid settings.
EffectiveControls(gc) == IF ~Truthy(gc) THEN <<1, 1, 0>> ELSE gc.val

\* Variant: the test is for another geometry type.
IsMesh_extrusion(geo) == geo.kind = "Extrusion"

\* Line 81: isinstance(geo, rhino3dm.Mesh)
IsMesh(geo) == geo.kind = "Mesh"

\* Variant: the stored name is sanitised where it is read.
ObjName_clean(obj, u) ==
    LET name == obj.Attributes.Name
    IN  IF name # <<>> THEN clean_string(name)
        ELSE clean_and_id_string(<<"G", "r", "i", "d">>, u)

\* Lines 96-97: the stored name, or a generated one when it is empty.
ObjName(obj, u) ==
    LET name == obj.Attributes.Name
    IN  IF name # <<>> THEN name
        ELSE clean_and_id_string(<<"G", "r", "i", "d">>, u)

\* Variant: the three grid controls are passed in turn.
SeedArgs_xyz(obj_name, faces, gc) ==
    <<clean_string(obj_name), faces, gc[1], gc[2], gc[3]>>

\* Lines 98-100: arguments of SensorGrid.from_face3d.
SeedArgs(obj_name, faces, gc) ==
    <<clean_string(obj_name), faces, gc[1], gc[1], gc[2]>>

\* Lines 103-106: accumulate positions and directions.
PosOf(sens) == [i \in 1..Len(sens) |-> sens[i].pos]
DirOf(sens) == [i \in 1..Len(sens) |-> sens[i].dir]
\* Variants: the positions replace the list; the directions are put in front.
AddPos_assign(acc, sens) == PosOf(sens)
AddDir_prepend(acc, sens) == DirOf(sens) \o acc

AddPos(acc, sens) == acc \o PosOf(sens)
AddDir(acc, sens) == acc \o DirOf(sens)

\* Line 108: the summary row of one object.
SummaryRow(obj_name, sens) == <<obj_name, Len(sens)>>

\* Lines 110-111: the merged grid.
MergedGrid(l, positions, directions) ==
    from_position_and_direction(l.Name, positions, directions)

build_inputs == <<rhino3dm_file, tolerance, layer, child_layer>>
export_idle == UNCHANGED export_vars

\* Lines 58-73: entry of a call, up to the loop.
Enter(gc) ==
    /\ pc = "idle"
    /\ call + 1 \in Calls
    /\ call' = call + 1
    /\ args' = [args EXCEPT ![call + 1] = gc]
    /\ hb_grids' = <<>>
    /\ grid_pos' = <<>>
    /\ grid_dir' = <<>>
    /\ data' = <<>>
    /\ grid_objs' = SelectObjects(rhino3dm_file, layer, child_layer)
    /\ lookups' = [lookups EXCEPT ![call + 1] = <<LookupUsed(child_layer)>>]
    /\ grid_controls' = EffectiveControls(gc)
    /\ idx' = 1
    /\ pc' = "loop"
    /\ UNCHANGED <<build_inputs, result, converted, seeded>>
    /\ export_idle

\* An exception leaves the call: its locals are gone.
Unwind ==
    /\ pc' = "idle"
    /\ hb_grids' = <<>>
    /\ grid_pos' = <<>>
    /\ grid_dir' = <<>>
    /\ data' = <<>>
    /\ grid_objs' = <<>>
    /\ grid_controls' = <<>>
    /\ idx' = 0

\* Lines 82-84: the ValueError for a mesh.
MeshError == Raised("ValueError", "Mesh is not accepted.", "")

\* Lines 75-84: the next object is a mesh.
RaiseMesh ==
    /\ pc = "loop"
    /\ idx <= Len(grid_objs)
    /\ IsMesh(grid_objs[idx].Geometry)
    /\ result' = [result EXCEPT ![call] = MeshError]
    /\ Unwind
    /\ UNCHANGED <<build_inputs, call, args, lookups, converted, seeded>>
    /\ export_idle

\* Lines 86-95: to_face3d raises AssertionError for the next object.
RaiseConversion ==
    /\ pc = "loop"
    /\ idx <= Len(grid_objs)
    /\ LET obj == grid_objs[idx]
       IN  /\ ~IsMesh(obj.Geometry)
           /\ ToFace3dFails(obj, tolerance)
           /\ converted' = [converted EXCEPT ![call] = Append(@, obj.Attributes.Id)]
           /\ result' = [result EXCEPT ![call] = ConversionError(obj)]
    /\ Unwind
    /\ UNCHANGED <<build_inputs, call, args, lookups, seeded>>
    /\ export_idle

\* Lines 86-108: the next object is converted, seeded and recorded.
SeedObject(u) ==
    /\ pc = "loop"
    /\ idx <= Len(grid_objs)
    /\ LET obj == grid_objs[idx]
       IN  /\ ~IsMesh(obj.Geometry)
           /\ ~ToFace3dFails(obj, tolerance)
           /\ LET faces    == to_face3d(obj, tolerance)
                  obj_name == ObjName(obj, u)
                  a        == SeedArgs(obj_name, faces, grid_controls)
                  sens     == from_face3d(a)
              IN  /\ converted' = [converted EXCEPT ![call] = Append(@, obj.Attributes.Id)]
                  /\ seeded' = [seeded EXCEPT ![call] =
                                   Append(@, [id |-> obj.Attributes.Id, args |-> a, sens |-> sens])]
                  /\ grid_pos' = AddPos(grid_pos, sens)
                  /\ grid_dir' = AddDir(grid_dir, sens)
                  /\ data' = Append(data, SummaryRow(obj_name, sens))
    /\ idx' = idx + 1
    /\ UNCHANGED <<build_inputs, call, pc, args, grid_objs, grid_controls, hb_grids,
                   result, lookups>>
    /\ export_idle

\* Lines 110-113: the loop is over; merge and return.
Return ==
    /\ pc = "loop"
    /\ idx > Len(grid_objs)
    /\ LET grids == Append(hb_grids, MergedGrid(layer, grid_pos, grid_dir))
       IN  result' = [result EXCEPT ![call] = Returned(grids, data)]
    /\ Unwind
    /\ UNCHANGED <<build_inputs, call, args, lookups, converted, seeded>>
    /\ export_idle

ExportIdleInit ==
    /\ fs = <<>>
    /\ opened = 0
    /\ writes = 0
    /\ last_call = <<>>
    /\ exported = <<>>

BuildInit ==
    /\ rhino3dm_file \in Files
    /\ tolerance \in Tolerances
    /\ layer \in {l \in Layers : l.Name \in {"grid", "zone"}}
    /\ call = 0
    /\ pc = "idle"
    /\ child_layer \in BOOLEAN
    /\ args = [c \in Calls |-> None]
    /\ grid_objs = <<>>
    /\ grid_controls = <<>>
    /\ idx = 0
    /\ hb_grids = <<>>
    /\ grid_pos = <<>>
    /\ grid_dir = <<>>
    /\ data = <<>>
    /\ result = [c \in Calls |-> Pending]
    /\ lookups = [c \in Calls |-> <<>>]
    /\ converted = [c \in Calls |-> <<>>]
    /\ seeded = [c \in Calls |-> <<>>]
    /\ ExportIdleInit

BuildNext ==
    \/ \E gc \in GridControls : Enter(gc)
    \/ RaiseMesh
    \/ RaiseConversion
    \/ \E u \in UuidPrefixes : SeedObject(u)
    \/ Return

SpecBuild == BuildInit /\ [][BuildNext]_vars

----------------------------------------------------------------------------
(* DataWriter.write_csv                                                    *)

\* Fields of a row: text or an integer.
Str(chars) == [t |-> "str", s |-> chars, n |-> 0]
Int_(n) == [t |-> "int", s |-> <<>>, n |-> n]

RowCatalog ==
    { <<Str(<<"A">>), Int_(3)>>,
      <<Str(<<"b", ",", "\"">>), Int_(12)>>,
      <<Str(<<>>)>> }

DataSets == UNION { [1..n -> RowCatalog] : n \in 0..MaxRows }

Names == {"report", "totals"}

\* What is at a path of the file system before and during the run; regular
\* files under the directories are held in fs.
PathKind(path) ==
    CASE path = "."         -> "dir"
      [] path = "out"       -> "dir"
      [] path = "notes.txt" -> "file"
      [] OTHER              -> "absent"

NoFolder == [some |-> FALSE, val |-> ""]
Folder(path) == [some |-> TRUE, val |-> path]
TargetFolders == {NoFolder, Folder(""), Folder("out"), Folder("gone"), Folder("notes.txt")}

FileNames == {<<n, ".csv">> : n \in Names}
FilePaths == {<<d, f>> : d \in {".", "out"}, f \in FileNames}

Absent == [exists |-> FALSE, content |-> <<>>]
FileOf(content) == [exists |-> TRUE, content |-> content]
StaleContent == << <<"o", "l", "d">>, <<"x", ",", "1">> >>

\* str() of a non-negative integer.
DigitChar(d) == <<"0", "1", "2", "3", "4", "5", "6", "7", "8", "9">>[d + 1]

RECURSIVE Digits(_)
Digits(n) == IF n < 10 THEN <<DigitChar(n)>> ELSE Digits(n \div 10) \o <<DigitChar(n % 10)>>

Text(f) == IF f.t = "int" THEN Digits(f.n) ELSE f.s

\* csv.writer, default dialect (QUOTE_MINIMAL, delimiter ',', quotechar '"',
\* doublequote): a field is quoted when it holds the delimiter, the quote
\* character or a line break.
NeedsQuote(text) == \E i \in 1..Len(text) : text[i] \in {",", "\"", "\r", "\n"}

RECURSIVE DoubleQuotes(_)
DoubleQuotes(text) ==
    IF text = <<>> THEN <<>>
    ELSE (IF Head(text) = "\"" THEN <<"\"", "\"">> ELSE <<Head(text)>>)
            \o DoubleQuotes(Tail(text))

RenderField(text) ==
    IF NeedsQuote(text) THEN <<"\"">> \o DoubleQuotes(text) \o <<"\"">> ELSE text

RECURSIVE JoinFields(_)
JoinFields(texts) ==
    IF texts = <<>> THEN <<>>
    ELSE IF Len(texts) = 1 THEN Head(texts)
    ELSE Head(texts) \o <<",">> \o JoinFields(Tail(texts))

\* csv_writer.writerow(data): one record, without its line terminator.  A
\* row of one empty field is written as "" so that it is not a blank line.
writerow(row) ==
    IF Len(row) = 1 /\ Text(row[1]) = <<>> THEN <<"\"", "\"">>
    ELSE JoinFields([i \in 1..Len(row) |-> RenderField(Text(row[i]))])

\* Line 22: truth value of self.target_folder.
FolderGiven(tf) == tf.some /\ tf.val # ""

\* Variant: the folder is not validated.
PathExists_always(path) == TRUE

\* Line 24: os.path.exists(self.target_folder)
PathExists(path) == PathKind(path) # "absent"

\* Lines 28-30: the file name.  A relative name is in the working directory.
FileName(name, tf) ==
    IF FolderGiven(tf) THEN <<tf.val, <<name, ".csv">>>> ELSE <<".", <<name, ".csv">>>>

\* Variant: the file is opened for appending.
OpenedContent_append(old) == old

\* Line 32: open(file_name, mode='w') starts from an empty file.
OpenedContent(old) == <<>>

\* Lines 35-36: one writerow per row, in order.
WriteRows(content, rows) == content \o [i \in 1..Len(rows) |-> writerow(rows[i])]

NoCall == [name |-> "", data |-> <<>>, target_folder |-> NoFolder,
           outcome |-> "none", file_name |-> <<>>]
CallRecord(name, rows, tf, outcome, file_name) ==
    [name |-> name, data |-> rows, target_folder |-> tf,
     outcome |-> outcome, file_name |-> file_name]

build_idle == UNCHANGED build_vars

\* Lines 24-27: the target folder is given and nothing is at that path.
WriteInvalidFolder(name, rows, tf) ==
    /\ writes < MaxWrites
    /\ FolderGiven(tf)
    /\ ~PathExists(tf.val)
    /\ writes' = writes + 1
    /\ last_call' = CallRecord(name, rows, tf, "ValueError", <<>>)
    /\ UNCHANGED <<fs, opened, exported>>
    /\ build_idle

\* Line 32: open() fails because the parent of the file is not a directory;
\* the OSError propagates.
WriteOpenFails(name, rows, tf) ==
    /\ writes < MaxWrites
    /\ FolderGiven(tf) => PathExists(tf.val)
    /\ LET file_name == FileName(name, tf)
       IN  /\ PathKind(file_name[1]) # "dir"
           /\ opened' = opened + 1
           /\ last_call' = CallRecord(name, rows, tf, "OSError", file_name)
    /\ writes' = writes + 1
    /\ UNCHANGED <<fs, exported>>
    /\ build_idle

\* Lines 20-36: the file is opened for writing and every row is written.
WriteCsv(name, rows, tf) ==
    /\ writes < MaxWrites
    /\ FolderGiven(tf) => PathExists(tf.val)
    /\ LET file_name == FileName(name, tf)
       IN  /\ PathKind(file_name[1]) = "dir"
           /\ opened' = opened + 1
           /\ fs' = [fs EXCEPT ![file_name] =
                        FileOf(WriteRows(OpenedContent(@.content), rows))]
           /\ exported' = [exported EXCEPT ![file_name] = [done |-> TRUE, rows |-> rows]]
           /\ last_call' = CallRecord(name, rows, tf, "ok", file_name)
    /\ writes' = writes + 1
    /\ build_idle

BuildIdleInit ==
    /\ rhino3dm_file = <<>>
    /\ tolerance = 1
    /\ layer = LayerTable[1]
    /\ child_layer = FALSE
    /\ call = 0
    /\ pc = "idle"
    /\ args = <<>>
    /\ grid_objs = <<>>
    /\ grid_controls = <<>>
    /\ idx = 0
    /\ hb_grids = <<>>
    /\ grid_pos = <<>>
    /\ grid_dir = <<>>
    /\ data = <<>>
    /\ result = <<>>
    /\ lookups = <<>>
    /\ converted = <<>>
    /\ seeded = <<>>

\* Some of the files are there already, with content from an earlier run.
ExportInit ==
    /\ fs = [p \in FilePaths |->
                IF p \in {<<"out", <<"report", ".csv">>>>, <<".", <<"totals", ".csv">>>>}
                THEN FileOf(StaleContent) ELSE Absent]
    /\ opened = 0
    /\ writes = 0
    /\ last_call = NoCall
    /\ exported = [p \in FilePaths |-> [done |-> FALSE, rows |-> <<>>]]
    /\ BuildIdleInit

ExportNext ==
    \E name \in Names, rows \in DataSets, tf \in TargetFolders :
        \/ WriteInvalidFolder(name, rows, tf)
        \/ WriteOpenFails(name, rows, tf)
        \/ WriteCsv(name, rows, tf)

SpecExport == ExportInit /\ [][ExportNext]_vars

----------------------------------------------------------------------------
(* Properties of import_grids                                              *)

Entered(c) == c \in Calls /\ c <= call
Done(c) == Entered(c) /\ result[c].kind # "pending"
ReturnedCall(c) == Entered(c) /\ result[c].kind = "return"

\* The objects a call enumerates, in traversal order.
Enumerated == SelectObjects(rhino3dm_file, layer, child_layer)

\* The object's geometry is a rhino3dm.Mesh.
MeshObject(o) == o.Geometry.kind = "Mesh"

Convertible(o) == ~MeshObject(o) /\ ~ToFace3dFails(o, tolerance)

\* Summary rows of call c so far: the local list while c runs, the returned
\* one afterwards.
Rows(c) == IF c = call /\ pc = "loop" THEN data ELSE result[c].data

\* C1: when every enumerated object is a non-mesh that converts to faces
\* (none at all included), a finished call has returned exactly one grid and
\* one summary row per object, each row's count is the number of points seeded
\* from that object, and the grid holds as many points as the counts add up to.
C1_OneGridCountsAgree ==
    \A c \in Calls :
        (Done(c) /\ \A i \in 1..Len(Enumerated) : Convertible(Enumerated[i]))
        => /\ result[c].kind = "return"
           /\ Len(result[c].grids) = 1
           /\ Len(result[c].data) = Len(Enumerated)
           /\ Len(seeded[c]) = Len(Enumerated)
           /\ \A i \in 1..Len(Enumerated) :
                /\ seeded[c][i].id = Enumerated[i].Attributes.Id
                /\ result[c].data[i][2] = Len(seeded[c][i].sens)
           /\ Len(result[c].grids[1].positions)
                = SumSeq([i \in 1..Len(result[c].data) |-> result[c].data[i][2]])
           /\ Len(result[c].grids[1].directions) = Len(result[c].grids[1].positions)
           /\ (Enumerated = <<>> =>
                 /\ result[c].grids[1].positions = <<>>
                 /\ result[c].data = <<>>)

\* A call returned a grid with points from two objects.
C1_Witness ==
    \E c \in Calls :
        /\ ReturnedCall(c)
        /\ Len(result[c].data) = 2
        /\ result[c].data[1][2] > 0
        /\ result[c].data[2][2] > 0

HasMesh == \E i \in 1..Len(Enumerated) : MeshObject(Enumerated[i])
FirstMesh == CHOOSE i \in 1..Len(Enumerated) :
                /\ MeshObject(Enumerated[i])
                /\ \A j \in 1..(i - 1) : ~MeshObject(Enumerated[j])

RaisedMeshError(c) ==
    /\ result[c].kind = "raise"
    /\ result[c].exc.type = "ValueError"
    /\ result[c].exc.text = "Mesh is not accepted."
    /\ result[c].grids = <<>>
    /\ result[c].data = <<>>

C3_ConversionFailureIsFatal ==
    \A c \in Calls : \A k \in 1..Len(converted[c]) :
        (Entered(c) /\ \E i \in 1..Len(Enumerated) :
                          /\ Enumerated[i].Attributes.Id = converted[c][k]
                          /\ ToFace3dFails(Enumerated[i], tolerance))
        => /\ result[c].kind = "raise"
           /\ result[c].exc.type = "AssertionError"
           /\ result[c].exc.id = converted[c][k]
           /\ result[c].grids = <<>>
           /\ result[c].data = <<>>
           /\ k = Len(converted[c])
           /\ Enumerated[k].Attributes.Id = converted[c][k]
           /\ \A j \in 1..k : converted[c][j] = Enumerated[j].Attributes.Id
           /\ Len(seeded[c]) = k - 1
           /\ \A j \in 1..(k - 1) : seeded[c][j].id = Enumerated[j].Attributes.Id

\* A conversion failed after an earlier object had been seeded.
C3_Witness ==
    \E c \in Calls :
        /\ Done(c)
        /\ result[c].exc.type = "AssertionError"
        /\ Len(seeded[c]) = 1
        /\ Len(converted[c]) = 2

\* Objects of the file directly on the layer, and on layers under it,
\* found by walking up from the object's layer.
RECURSIVE IsUnder(_, _)
IsUnder(i, root) ==
    LET par == LayerTable[i + 1].Parent
    IN  par # -1 /\ (par = root \/ IsUnder(par, root))

DirectSet == {o \in Range(rhino3dm_file) : o.Attributes.LayerIndex = layer.Index}
NestedSet == {o \in Range(rhino3dm_file) : IsUnder(o.Attributes.LayerIndex, layer.Index)}

\* C6: a call with child_layer set enumerates the layer's direct objects and
\* those of every layer under it, a call without it exactly the direct ones;
\* one lookup is made per call; and when there are objects on layers under
\* the layer, the set differs from the one the other mode gives.
C6_ChildLayerSelectsObjects ==
    \A c \in Calls :
        Entered(c) =>
            /\ Len(lookups[c]) = 1
            /\ lookups[c][1] = (IF child_layer THEN "objects_on_parent_child"
                                ELSE "objects_on_layer")
            /\ (c = call /\ pc = "loop") =>
                 /\ Injective(grid_objs)
                 /\ Range(grid_objs) = (IF child_layer THEN DirectSet \cup NestedSet
                                        ELSE DirectSet)
                 /\ NestedSet # {} =>
                      Range(grid_objs) # (IF child_layer THEN DirectSet
                                          ELSE DirectSet \cup NestedSet)

\* A call with child_layer set enumerates an object of a nested layer next
\* to a direct one.
C6_Witness ==
    /\ pc = "loop"
    /\ child_layer
    /\ \E i, j \in 1..Len(grid_objs) :
        /\ grid_objs[i] \in DirectSet
        /\ grid_objs[j] \in NestedSet

\* C8: the positions of the returned grid are the seeded sensors' positions,
\* object after object in traversal order and in seeding order within an
\* object; the i-th direction is the direction of the i-th sensor; the grid
\* is named after the layer.
C8_MergedGridOrder ==
    \A c \in Calls :
        ReturnedCall(c) =>
            LET sens == Flatten([i \in 1..Len(seeded[c]) |-> seeded[c][i].sens])
                grid == result[c].grids[1]
            IN  /\ [i \in 1..Len(seeded[c]) |-> seeded[c][i].id]
                     = [i \in 1..Len(Enumerated) |-> Enumerated[i].Attributes.Id]
                /\ Len(grid.positions) = Len(sens)
                /\ Len(grid.directions) = Len(sens)
                /\ \A i \in 1..Len(sens) :
                     /\ grid.positions[i] = sens[i].pos
                     /\ grid.directions[i] = sens[i].dir
                /\ grid.identifier = layer.Name

\* A grid was merged from two objects whose sensors point different ways.
C8_Witness ==
    \E c \in Calls :
        /\ ReturnedCall(c)
        /\ Len(seeded[c]) = 2
        /\ Len(seeded[c][1].sens) > 0
        /\ Len(seeded[c][2].sens) > 0
        /\ seeded[c][1].sens[1].dir # seeded[c][2].sens[1].dir

StoredName(c, i) == Enumerated[i].Attributes.Name

\* C9 as claimed: the name in a summary row is the string passed as the
\* identifier to the seeding of that object.
C9_RowNameIsSeedIdentifier ==
    \A c \in Calls : \A i \in 1..Len(Rows(c)) :
        Entered(c) => Rows(c)[i][1] = seeded[c][i].args[1]

\* C9 amended: the name in a summary row is the stored name when that is not
\* empty and otherwise the generated one ("Grid", "_", a uuid prefix), not
\* sanitised; the identifier passed to the seeding is its sanitised form.
C9_RowNameIsUnsanitised ==
    \A c \in Calls : \A i \in 1..Len(Rows(c)) :
        Entered(c) =>
            /\ seeded[c][i].id = Enumerated[i].Attributes.Id
            /\ IF StoredName(c, i) # <<>>
               THEN Rows(c)[i][1] = StoredName(c, i)
               ELSE \E u \in UuidPrefixes : Rows(c)[i][1] = <<"G", "r", "i", "d", "_", u>>
            /\ seeded[c][i].args[1] = clean_string(Rows(c)[i][1])

\* A row was recorded for an object whose stored name is changed by
\* sanitising.
C9_Witness ==
    \E c \in Calls : \E i \in 1..Len(Rows(c)) :
        /\ Entered(c)
        /\ StoredName(c, i) # <<>>
        /\ clean_string(StoredName(c, i)) # StoredName(c, i)
        /\ Rows(c)[i][1] = StoredName(c, i)

\* Two outcomes agree except in the generated names of objects without a
\* stored name: same kind, same grids, same exception, and summary rows with
\* the same counts and, for objects with a stored name, the same names.
SameUpToGeneratedNames(r1, r2) ==
    /\ r1.kind = r2.kind
    /\ r1.grids = r2.grids
    /\ r1.exc = r2.exc
    /\ Len(r1.data) = Len(r2.data)
    /\ \A i \in 1..Len(r1.data) :
        /\ r1.data[i][2] = r2.data[i][2]
        /\ IF Enumerated[i].Attributes.Name # <<>>
           THEN r1.data[i][1] = r2.data[i][1]
           ELSE \E u1, u2 \in UuidPrefixes :
                    /\ r1.data[i][1] = <<"G", "r", "i", "d", "_", u1>>
                    /\ r2.data[i][1] = <<"G", "r", "i", "d", "_", u2>>

DefaultPair(c, d) ==
    /\ Done(c) /\ Done(d)
    /\ args[c] = None
    /\ args[d] = Some(<<1, 1, 0>>)

\* C7 as claimed: on the same file, layer, tolerance and child_layer, a call
\* with grid_controls=None and a call with (1.0, 1.0, 0.0) have the same
\* outcome: same grid, same summary rows, or same error.
C7_DefaultSameOutcome ==
    \A c, d \in Calls : DefaultPair(c, d) => result[c] = result[d]

\* C7 amended: the two calls have the same grid or the same error, and the
\* same summary rows except for the names generated for objects without a
\* stored name, which are generated anew in each call.
C7_DefaultSameUpToGeneratedNames ==
    \A c, d \in Calls : DefaultPair(c, d) => SameUpToGeneratedNames(result[c], result[d])

\* A call with None and a call with (1, 1, 0) both returned a grid with
\* points.
C7_Witness ==
    \E c, d \in Calls :
        /\ DefaultPair(c, d)
        /\ result[c].kind = "return"
        /\ Len(result[c].grids[1].positions) > 0

\* The grid controls in force in call c.
ControlsOf(c) == IF args[c] = None THEN <<1, 1, 0>> ELSE args[c].val

\* Every seeding of call c got (sanitised name, faces, grid_controls[0],
\* grid_controls[0], grid_controls[1]).
SeedArgsShape(c) ==
    \A i \in 1..Len(seeded[c]) :
        LET a == seeded[c][i].args
            o == Enumerated[i]
        IN  /\ Len(a) = 5
            /\ IF o.Attributes.Name # <<>>
               THEN a[1] = clean_string(o.Attributes.Name)
               ELSE \E u \in UuidPrefixes : a[1] = <<"G", "r", "i", "d", "_", u>>
            /\ a[2] = o.Geometry.faces
            /\ a[3] = ControlsOf(c)[1]
            /\ a[4] = ControlsOf(c)[1]
            /\ a[5] = ControlsOf(c)[2]

OffsetPair(c, d) ==
    /\ Done(c) /\ Done(d)
    /\ args[c].some /\ args[d].some
    /\ args[c].val[1] = args[d].val[1]
    /\ args[c].val[2] = args[d].val[2]
    /\ args[c].val[3] # args[d].val[3]

----------------------------------------------------------------------------
(* Properties of DataWriter.write_csv                                      *)

CallMade == writes' = writes + 1

NothingTouched ==
    /\ last_call'.outcome = "ValueError"
    /\ fs' = fs
    /\ opened' = opened

\* C4 as claimed: a call whose target_folder is given but is not an existing
\* directory raises the 'not a valid path' ValueError before any file is
\* opened; no file is created or modified.
C4_NotADirectoryRaises ==
    [][(/\ CallMade
        /\ last_call'.target_folder.some
        /\ last_call'.target_folder.val # ""
        /\ PathKind(last_call'.target_folder.val) # "dir") => NothingTouched]_vars

\* C4 amended: a call whose target_folder is given and at whose path nothing
\* exists raises the 'not a valid path' ValueError before any file is
\* opened; no file is created or modified.
C4_MissingFolderRaises ==
    [][(/\ CallMade
        /\ last_call'.target_folder.some
        /\ last_call'.target_folder.val # ""
        /\ PathKind(last_call'.target_folder.val) = "absent") => NothingTouched]_vars

\* A call with a missing folder was refused after an earlier export.
C4_Witness ==
    /\ writes = 2
    /\ opened = 1
    /\ last_call.target_folder = Folder("gone")
    /\ last_call.outcome = "ValueError"

\* csv.reader on one record: the fields, split at the commas outside quotes,
\* with the quoting undone.  A blank line is a row without fields.
RECURSIVE ParseFrom(_, _, _, _)
ParseFrom(line, mode, cur, acc) ==
    IF line = <<>> THEN Append(acc, cur)
    ELSE LET c == Head(line)
             rest == Tail(line)
         IN  CASE mode = "quoted" ->
                    IF c = "\"" /\ rest # <<>> /\ Head(rest) = "\""
                    THEN ParseFrom(Tail(rest), "quoted", Append(cur, "\""), acc)
                    ELSE IF c = "\"" THEN ParseFrom(rest, "plain", cur, acc)
                    ELSE ParseFrom(rest, "quoted", Append(cur, c), acc)
               [] mode = "start" /\ c = "\"" -> ParseFrom(rest, "quoted", cur, acc)
               [] OTHER ->
                    IF c = "," THEN ParseFrom(rest, "start", <<>>, Append(acc, cur))
                    ELSE ParseFrom(rest, "plain", Append(cur, c), acc)

ParseLine(line) == IF line = <<>> THEN <<>> ELSE ParseFrom(line, "start", <<>>, <<>>)

Plain(row) == \A i \in 1..Len(row) : \A k \in 1..Len(Text(row[i])) :
                    Text(row[i])[k] \notin {",", "\""}

\* C5: after any calls, a file that was exported to holds exactly the rows
\* of the latest successful export to its path (folder/name.csv, or
\* ./name.csv without a folder): one line per row, in order, that reads back
\* as the row's fields, and is the fields joined by commas when no field
\* needs quoting; nothing of the earlier content is left.
C5_FileHoldsLatestExport ==
    /\ \A p \in FilePaths :
        exported[p].done =>
            LET rows == exported[p].rows
                content == fs[p].content
            IN  /\ fs[p].exists
                /\ Len(content) = Len(rows)
                /\ \A i \in 1..Len(rows) :
                    /\ ParseLine(content[i]) = [k \in 1..Len(rows[i]) |-> Text(rows[i][k])]
                    /\ (Plain(rows[i]) /\ Len(rows[i]) > 1) =>
                          content[i] = JoinFields([k \in 1..Len(rows[i]) |-> Text(rows[i][k])])
    /\ last_call.outcome = "ok" =>
        /\ last_call.file_name =
              <<IF last_call.target_folder.some /\ last_call.target_folder.val # ""
                THEN last_call.target_folder.val ELSE ".",
                <<last_call.name, ".csv">>>>
        /\ exported[last_call.file_name].rows = last_call.data

\* Two rows, one of them quoted, were exported over a file that held older
\* content.
C5_Witness ==
    /\ last_call.outcome = "ok"
    /\ last_call.file_name = <<"out", <<"report", ".csv">>>>
    /\ Len(last_call.data) = 2
    /\ last_call.data[1] # last_call.data[2]
    /\ \E i \in 1..2 : ~Plain(last_call.data[i])
    /\ writes = 1

====
